---- MODULE Spec2Model ----
(***************************************************************************)
(* A relational model of app/models.py: the seven tables and the two       *)
(* association tables with their declared column constraints (NOT NULL,    *)
(* UNIQUE, FOREIGN KEY, defaults), and the Create / Update / Response      *)
(* schemas with their declared field constraints.  A cell of a row, and a  *)
(* value of a payload, is NULL or holds one value; a text value is a       *)
(* sequence of characters.  A payload is a function from the field names   *)
(* it carries to their values: a field it omits is not in its domain.      *)
(***************************************************************************)
EXTENDS Integers, Sequences, FiniteSets, TLC

VARIABLES
    db,     \* the tables: table name -> (id -> row), and the two sets of link rows
    seq,    \* the next id of each table
    now,    \* the clock datetime.utcnow reads
    last,   \* the last request, with the row it met and its outcome
    nops    \* the number of requests served

vars == <<db, seq, now, last, nops>>

(* ------------------------------ bounds -------------------------------- *)

MaxOps == 2
MaxRows == 2
MaxClock == 1

(* ------------------------------ values -------------------------------- *)

NULL == {}
Some(v) == {v}
The(c) == CHOOSE v \in c : TRUE

Rep(n) == [i \in 1..n |-> "x"]

UserRole == {"admin", "editor"}
\* ContentStatus with a fourth member.
ContentStatusWithDeleted == {"draft", "published", "archived", "deleted"}
ContentStatus == {"draft", "published", "archived"}
ContentType == {"post", "page"}

EnumValues(type) ==
    CASE type = "UserRole" -> UserRole
      [] type = "ContentStatus" -> ContentStatus
      [] type = "ContentType" -> ContentType

IsEnum(type) == type \in {"UserRole", "ContentStatus", "ContentType"}

Alnum == {"a", "b", "c", "d", "e", "f", "g", "h", "i", "j", "k", "l", "m",
          "n", "o", "p", "q", "r", "s", "t", "u", "v", "w", "x", "y", "z",
          "0", "1", "2", "3", "4", "5", "6", "7", "8", "9"}

\* ^[a-zA-Z0-9_.+-]+@[a-zA-Z0-9-]+\.[a-zA-Z0-9-.]+$
EmailRegex(s) ==
    \E i \in 1..Len(s), j \in 1..Len(s) :
        /\ 1 < i /\ i + 1 < j /\ j < Len(s)
        /\ s[i] = "@" /\ s[j] = "."
        /\ \A k \in 1..(i - 1) : s[k] \in Alnum \cup {"_", ".", "+", "-"}
        /\ \A k \in (i + 1)..(j - 1) : s[k] \in Alnum \cup {"-"}
        /\ \A k \in (j + 1)..Len(s) : s[k] \in Alnum \cup {"-", "."}

(* ------------------------- column declarations ------------------------ *)

Column(type, max) ==
    [type |-> type, null |-> FALSE, max |-> max, unique |-> FALSE,
     fk |-> "", regex |-> FALSE, gen |-> "", dflt |-> NULL]

PrimaryKey == [Column("int", 0) EXCEPT !.gen = "serial"]
\* A column declared without unique=True.
UniqueDropped(c) == c
Unique(c) == [c EXCEPT !.unique = TRUE]
Regex(c) == [c EXCEPT !.regex = TRUE]
Nullable(c) == [c EXCEPT !.null = TRUE]
ForeignKey(c, t) == [c EXCEPT !.fk = t]
Default(c, v) == [c EXCEPT !.dflt = Some(v)]
UtcNow == [Column("datetime", 0) EXCEPT !.gen = "utcnow"]

EmptyDict == {}

User ==
    [id |-> PrimaryKey,
     username |-> Unique(Column("str", 50)),
     email |-> Regex(Unique(Column("str", 255))),
     password_hash |-> Column("str", 255),
     first_name |-> Column("str", 100),
     last_name |-> Column("str", 100),
     role |-> Default(Column("UserRole", 0), "editor"),
     is_active |-> Default(Column("bool", 0), TRUE),
     created_at |-> UtcNow,
     updated_at |-> UtcNow,
     last_login |-> Nullable(Column("datetime", 0))]

Category ==
    [id |-> PrimaryKey,
     name |-> Unique(Column("str", 100)),
     slug |-> Unique(Column("str", 120)),
     description |-> Default(Column("str", 500), <<>>),
     parent_id |-> ForeignKey(Nullable(Column("int", 0)), "categories"),
     is_active |-> Default(Column("bool", 0), TRUE),
     created_at |-> UtcNow]

Tag ==
    [id |-> PrimaryKey,
     name |-> Unique(Column("str", 100)),
     slug |-> Unique(Column("str", 120)),
     description |-> Default(Column("str", 500), <<>>),
     color |-> Default(Column("str", 7), <<"#", "6", "B", "7", "2", "8", "0">>),
     is_active |-> Default(Column("bool", 0), TRUE),
     created_at |-> UtcNow]

Post ==
    [id |-> PrimaryKey,
     title |-> Column("str", 255),
     slug |-> Unique(Column("str", 300)),
     content |-> Default(Column("str", 0), <<>>),
     excerpt |-> Default(Column("str", 500), <<>>),
     status |-> Default(Column("ContentStatus", 0), "draft"),
     featured_image |-> Nullable(Column("str", 500)),
     meta_data |-> Default(Column("json", 0), EmptyDict),
     view_count |-> Default(Column("int", 0), 0),
     is_featured |-> Default(Column("bool", 0), FALSE),
     allow_comments |-> Default(Column("bool", 0), TRUE),
     author_id |-> ForeignKey(Column("int", 0), "users"),
     published_at |-> Nullable(Column("datetime", 0)),
     created_at |-> UtcNow,
     updated_at |-> UtcNow]

Page ==
    [id |-> PrimaryKey,
     title |-> Column("str", 255),
     slug |-> Unique(Column("str", 300)),
     content |-> Default(Column("str", 0), <<>>),
     status |-> Default(Column("ContentStatus", 0), "draft"),
     meta_data |-> Default(Column("json", 0), EmptyDict),
     template |-> Default(Column("str", 100), <<"d", "e", "f", "a", "u", "l", "t">>),
     parent_id |-> ForeignKey(Nullable(Column("int", 0)), "pages"),
     sort_order |-> Default(Column("int", 0), 0),
     is_in_menu |-> Default(Column("bool", 0), FALSE),
     author_id |-> ForeignKey(Column("int", 0), "users"),
     published_at |-> Nullable(Column("datetime", 0)),
     created_at |-> UtcNow,
     updated_at |-> UtcNow]

Comment ==
    [id |-> PrimaryKey,
     post_id |-> ForeignKey(Column("int", 0), "posts"),
     author_name |-> Column("str", 100),
     author_email |-> Regex(Column("str", 255)),
     author_website |-> Nullable(Column("str", 500)),
     content |-> Column("str", 2000),
     is_approved |-> Default(Column("bool", 0), FALSE),
     parent_id |-> ForeignKey(Nullable(Column("int", 0)), "comments"),
     created_at |-> UtcNow]

Media ==
    [id |-> PrimaryKey,
     filename |-> Column("str", 255),
     original_filename |-> Column("str", 255),
     file_path |-> Column("str", 500),
     file_url |-> Column("str", 500),
     mime_type |-> Column("str", 100),
     file_size |-> Default(Column("int", 0), 0),
     alt_text |-> Default(Column("str", 255), <<>>),
     caption |-> Default(Column("str", 500), <<>>),
     meta_data |-> Default(Column("json", 0), EmptyDict),
     uploaded_by |-> ForeignKey(Column("int", 0), "users"),
     created_at |-> UtcNow]

\* PostCategory with category_id declared without its foreign key.
PostCategoryUnreferenced ==
    [post_id |-> ForeignKey(Column("int", 0), "posts"),
     category_id |-> Column("int", 0)]
PostCategory ==
    [post_id |-> ForeignKey(Column("int", 0), "posts"),
     category_id |-> ForeignKey(Column("int", 0), "categories")]

PostTag ==
    [post_id |-> ForeignKey(Column("int", 0), "posts"),
     tag_id |-> ForeignKey(Column("int", 0), "tags")]

\* __tablename__ of each class
Tables ==
    [users |-> User, categories |-> Category, tags |-> Tag, posts |-> Post,
     pages |-> Page, comments |-> Comment, media |-> Media]

LinkTables == [post_categories |-> PostCategory, post_tags |-> PostTag]

(* ------------------------- schema declarations ------------------------ *)

Required(type, max, min) ==
    [type |-> type, req |-> TRUE, null |-> FALSE, max |-> max, min |-> min,
     dflt |-> NULL]
WithDefault(type, max, v) ==
    [type |-> type, req |-> FALSE, null |-> FALSE, max |-> max, min |-> 0,
     dflt |-> Some(v)]
\* T = Field(default=None): the field declared without Optional.
NotOptional(type, max) ==
    [type |-> type, req |-> FALSE, null |-> FALSE, max |-> max, min |-> 0,
     dflt |-> NULL]
\* Optional[T] = Field(default=None)
Optional(type, max) ==
    [type |-> type, req |-> FALSE, null |-> TRUE, max |-> max, min |-> 0,
     dflt |-> NULL]

UserCreate ==
    [username |-> Required("str", 50, 0),
     email |-> Required("str", 255, 0),
     password |-> Required("str", 0, 8),
     first_name |-> Required("str", 100, 0),
     last_name |-> Required("str", 100, 0),
     role |-> WithDefault("UserRole", 0, "editor")]

\* UserUpdate declaring the stored password_hash as well.
UserUpdateWithPasswordHash ==
    [username |-> Optional("str", 50),
     email |-> Optional("str", 255),
     password_hash |-> Optional("str", 255),
     first_name |-> Optional("str", 100),
     last_name |-> Optional("str", 100),
     role |-> Optional("UserRole", 0),
     is_active |-> Optional("bool", 0)]
UserUpdate ==
    [username |-> Optional("str", 50),
     email |-> Optional("str", 255),
     first_name |-> Optional("str", 100),
     last_name |-> Optional("str", 100),
     role |-> Optional("UserRole", 0),
     is_active |-> Optional("bool", 0)]

UserLogin ==
    [username |-> Required("str", 0, 0),
     password |-> Required("str", 0, 0)]

\* UserResponse declaring the stored password_hash as well.
UserResponseWithPasswordHash ==
    [id |-> "int", username |-> "str", email |-> "str",
     password_hash |-> "str", first_name |-> "str", last_name |-> "str",
     role |-> "UserRole", is_active |-> "bool", created_at |-> "iso",
     last_login |-> "iso"]
UserResponse ==
    [id |-> "int", username |-> "str", email |-> "str", first_name |-> "str",
     last_name |-> "str", role |-> "UserRole", is_active |-> "bool",
     created_at |-> "iso", last_login |-> "iso"]

PostCreate ==
    [title |-> Required("str", 255, 0),
     slug |-> Required("str", 300, 0),
     content |-> WithDefault("str", 0, <<>>),
     excerpt |-> WithDefault("str", 500, <<>>),
     status |-> WithDefault("ContentStatus", 0, "draft"),
     featured_image |-> Optional("str", 500),
     meta_data |-> WithDefault("json", 0, EmptyDict),
     is_featured |-> WithDefault("bool", 0, FALSE),
     allow_comments |-> WithDefault("bool", 0, TRUE),
     category_ids |-> WithDefault("ints", 0, <<>>),
     tag_ids |-> WithDefault("ints", 0, <<>>)]

PostUpdate ==
    [title |-> Optional("str", 255),
     slug |-> Optional("str", 300),
     content |-> Optional("str", 0),
     excerpt |-> Optional("str", 500),
     status |-> Optional("ContentStatus", 0),
     featured_image |-> Optional("str", 500),
     meta_data |-> Optional("json", 0),
     is_featured |-> Optional("bool", 0),
     allow_comments |-> Optional("bool", 0),
     category_ids |-> Optional("ints", 0),
     tag_ids |-> Optional("ints", 0)]

PostResponse ==
    [id |-> "int", title |-> "str", slug |-> "str", content |-> "str",
     excerpt |-> "str", status |-> "ContentStatus", featured_image |-> "str",
     meta_data |-> "json", view_count |-> "int", is_featured |-> "bool",
     allow_comments |-> "bool", author_id |-> "int", published_at |-> "iso",
     created_at |-> "iso", updated_at |-> "iso"]

PageCreate ==
    [title |-> Required("str", 255, 0),
     slug |-> Required("str", 300, 0),
     content |-> WithDefault("str", 0, <<>>),
     status |-> WithDefault("ContentStatus", 0, "draft"),
     meta_data |-> WithDefault("json", 0, EmptyDict),
     template |-> WithDefault("str", 100, <<"d", "e", "f", "a", "u", "l", "t">>),
     parent_id |-> Optional("int", 0),
     sort_order |-> WithDefault("int", 0, 0),
     is_in_menu |-> WithDefault("bool", 0, FALSE)]

PageUpdate ==
    [title |-> Optional("str", 255),
     slug |-> Optional("str", 300),
     content |-> Optional("str", 0),
     status |-> Optional("ContentStatus", 0),
     meta_data |-> Optional("json", 0),
     template |-> Optional("str", 100),
     parent_id |-> Optional("int", 0),
     sort_order |-> Optional("int", 0),
     is_in_menu |-> Optional("bool", 0)]

PageResponse ==
    [id |-> "int", title |-> "str", slug |-> "str", content |-> "str",
     status |-> "ContentStatus", meta_data |-> "json", template |-> "str",
     parent_id |-> "int", sort_order |-> "int", is_in_menu |-> "bool",
     author_id |-> "int", published_at |-> "iso", created_at |-> "iso",
     updated_at |-> "iso"]

CategoryCreate ==
    [name |-> Required("str", 100, 0),
     slug |-> Required("str", 120, 0),
     description |-> WithDefault("str", 500, <<>>),
     parent_id |-> Optional("int", 0)]

CategoryUpdate ==
    [name |-> Optional("str", 100),
     slug |-> Optional("str", 120),
     description |-> Optional("str", 500),
     parent_id |-> Optional("int", 0),
     is_active |-> Optional("bool", 0)]

\* CategoryResponse without the description.
CategoryResponseWithoutDescription ==
    [id |-> "int", name |-> "str", slug |-> "str", parent_id |-> "int",
     is_active |-> "bool", created_at |-> "iso"]
CategoryResponse ==
    [id |-> "int", name |-> "str", slug |-> "str", description |-> "str",
     parent_id |-> "int", is_active |-> "bool", created_at |-> "iso"]

TagCreate ==
    [name |-> Required("str", 100, 0),
     slug |-> Required("str", 120, 0),
     description |-> WithDefault("str", 500, <<>>),
     color |-> WithDefault("str", 7, <<"#", "6", "B", "7", "2", "8", "0">>)]

TagUpdate ==
    [name |-> Optional("str", 100),
     slug |-> Optional("str", 120),
     description |-> Optional("str", 500),
     color |-> Optional("str", 7),
     is_active |-> Optional("bool", 0)]

TagResponse ==
    [id |-> "int", name |-> "str", slug |-> "str", description |-> "str",
     color |-> "str", is_active |-> "bool", created_at |-> "iso"]

\* CommentCreate declaring is_approved as well.
CommentCreateWithApproval ==
    [post_id |-> Required("int", 0, 0),
     author_name |-> Required("str", 100, 0),
     author_email |-> Required("str", 255, 0),
     author_website |-> Optional("str", 500),
     content |-> Required("str", 2000, 0),
     is_approved |-> WithDefault("bool", 0, FALSE),
     parent_id |-> Optional("int", 0)]
CommentCreate ==
    [post_id |-> Required("int", 0, 0),
     author_name |-> Required("str", 100, 0),
     author_email |-> Required("str", 255, 0),
     author_website |-> Optional("str", 500),
     content |-> Required("str", 2000, 0),
     parent_id |-> Optional("int", 0)]

CommentUpdate ==
    [content |-> Optional("str", 2000),
     is_approved |-> Optional("bool", 0)]

CommentResponse ==
    [id |-> "int", post_id |-> "int", author_name |-> "str",
     author_email |-> "str", author_website |-> "str", content |-> "str",
     is_approved |-> "bool", parent_id |-> "int", created_at |-> "iso"]

MediaCreate ==
    [filename |-> Required("str", 255, 0),
     original_filename |-> Required("str", 255, 0),
     file_path |-> Required("str", 500, 0),
     file_url |-> Required("str", 500, 0),
     mime_type |-> Required("str", 100, 0),
     file_size |-> Required("int", 0, 0),
     alt_text |-> WithDefault("str", 255, <<>>),
     caption |-> WithDefault("str", 500, <<>>),
     meta_data |-> WithDefault("json", 0, EmptyDict)]

MediaUpdate ==
    [alt_text |-> Optional("str", 255),
     caption |-> Optional("str", 500),
     meta_data |-> Optional("json", 0)]

MediaResponse ==
    [id |-> "int", filename |-> "str", original_filename |-> "str",
     file_path |-> "str", file_url |-> "str", mime_type |-> "str",
     file_size |-> "int", alt_text |-> "str", caption |-> "str",
     meta_data |-> "json", uploaded_by |-> "int", created_at |-> "iso"]

CreateSchemas ==
    [users |-> UserCreate, categories |-> CategoryCreate, tags |-> TagCreate,
     posts |-> PostCreate, pages |-> PageCreate, comments |-> CommentCreate,
     media |-> MediaCreate]

UpdateSchemas ==
    [users |-> UserUpdate, categories |-> CategoryUpdate, tags |-> TagUpdate,
     posts |-> PostUpdate, pages |-> PageUpdate, comments |-> CommentUpdate,
     media |-> MediaUpdate]

ResponseSchemas ==
    [users |-> UserResponse, categories |-> CategoryResponse,
     tags |-> TagResponse, posts |-> PostResponse, pages |-> PageResponse,
     comments |-> CommentResponse, media |-> MediaResponse]

(* ---------------------- schema validation (pydantic) ------------------- *)

\* Fields a schema does not declare are ignored.
Parse(schema, raw) == [f \in DOMAIN raw \cap DOMAIN schema |-> raw[f]]

FieldValid(fs, v) ==
    IF v = NULL
    THEN fs.null
    ELSE /\ IsEnum(fs.type) => The(v) \in EnumValues(fs.type)
         /\ fs.type = "str" =>
                /\ fs.max > 0 => Len(The(v)) <= fs.max
                /\ Len(The(v)) >= fs.min

Validate(schema, raw) ==
    \A f \in DOMAIN schema :
        IF f \in DOMAIN raw THEN FieldValid(schema[f], raw[f]) ELSE ~schema[f].req

\* The validated model: the fields set keep their values, the others take
\* the declared default.
Model(schema, raw) ==
    [f \in DOMAIN schema |-> IF f \in DOMAIN raw THEN raw[f] ELSE schema[f].dflt]

(* ----------------------------- rendering ------------------------------- *)

Digit == <<"0", "1", "2", "3", "4", "5", "6", "7", "8", "9">>

IsoFormat(cell) ==
    IF cell = NULL THEN NULL ELSE Some(<<"T", Digit[The(cell) + 1]>>)

Render(t, row) ==
    [f \in DOMAIN ResponseSchemas[t] |->
        IF ResponseSchemas[t][f] = "iso" THEN IsoFormat(row[f]) ELSE row[f]]

NoResponse == [f \in {} |-> NULL]

(* ------------------------- database constraints ------------------------ *)

NotNullOK(d) ==
    \A t \in DOMAIN Tables : \A i \in DOMAIN d[t] : \A c \in DOMAIN Tables[t] :
        ~Tables[t][c].null => d[t][i][c] # NULL

UniqueOK(d) ==
    \A t \in DOMAIN Tables : \A c \in DOMAIN Tables[t] :
        Tables[t][c].unique =>
            \A i, j \in DOMAIN d[t] :
                (i # j /\ d[t][i][c] # NULL) => d[t][i][c] # d[t][j][c]

ForeignKeysOK(d) ==
    /\ \A t \in DOMAIN Tables : \A i \in DOMAIN d[t] : \A c \in DOMAIN Tables[t] :
           (Tables[t][c].fk # "" /\ d[t][i][c] # NULL) =>
               The(d[t][i][c]) \in DOMAIN d[Tables[t][c].fk]
    /\ \A l \in DOMAIN LinkTables : \A e \in d[l] : \A c \in DOMAIN LinkTables[l] :
           LinkTables[l][c].fk # "" => e[c] \in DOMAIN d[LinkTables[l][c].fk]

Violations(d) ==
    (IF NotNullOK(d) THEN {} ELSE {"not_null_violation"})
    \cup (IF UniqueOK(d) THEN {} ELSE {"uniqueness_violation"})
    \cup (IF ForeignKeysOK(d) THEN {} ELSE {"referential_violation"})

(* ------------------------------ operations ----------------------------- *)

Range(s) == {s[i] : i \in 1..Len(s)}

Put(rows, id, row) ==
    [i \in DOMAIN rows \cup {id} |-> IF i = id THEN row ELSE rows[i]]

Remove(rows, id) == [i \in DOMAIN rows \ {id} |-> rows[i]]

Hash(p) == <<"$">> \o p

NewRow(t, m, id, actor, at) ==
    [c \in DOMAIN Tables[t] |->
        IF Tables[t][c].gen = "serial" THEN Some(id)
        ELSE IF c \in DOMAIN m THEN m[c]
        ELSE IF c = "password_hash" THEN Some(Hash(The(m.password)))
        ELSE IF c \in {"author_id", "uploaded_by"} THEN Some(actor)
        ELSE IF Tables[t][c].gen = "utcnow" THEN Some(at)
        ELSE Tables[t][c].dflt]

\* Absent fields keep the stored value; a field set, to a value or to null,
\* replaces it.
Patch(row, p) == [c \in DOMAIN row |-> IF c \in DOMAIN p THEN p[c] ELSE row[c]]

\* The post_categories / post_tags rows of post `id` replaced by those of the
\* id lists the payload sets.
Relink(d, id, p) ==
    LET cats == IF "category_ids" \in DOMAIN p /\ p.category_ids # NULL
                THEN {e \in d.post_categories : e.post_id # id}
                     \cup {[post_id |-> id, category_id |-> c] :
                               c \in Range(The(p.category_ids))}
                ELSE d.post_categories
        tags == IF "tag_ids" \in DOMAIN p /\ p.tag_ids # NULL
                THEN {e \in d.post_tags : e.post_id # id}
                     \cup {[post_id |-> id, tag_id |-> c] : c \in Range(The(p.tag_ids))}
                ELSE d.post_tags
    IN [d EXCEPT !.post_categories = cats, !.post_tags = tags]

\* A list naming the same id twice inserts the same composite key twice.
LinkViolations(p) ==
    (IF \E f \in {"category_ids", "tag_ids"} \cap DOMAIN p :
            p[f] # NULL /\ Len(The(p[f])) # Cardinality(Range(The(p[f])))
     THEN {"uniqueness_violation"} ELSE {})
    \cup (IF \E f \in {"category_ids", "tag_ids"} \cap DOMAIN p : p[f] = NULL
          THEN {"not_null_violation"} ELSE {})

Request(op, t, id, actor, raw) ==
    [op |-> op, table |-> t, id |-> id, actor |-> actor, payload |-> raw,
     before |-> IF t \in DOMAIN Tables /\ id \in DOMAIN db[t]
                THEN db[t][id] ELSE NoResponse,
     errors |-> {}, response |-> NoResponse]

Reject(req, errs) ==
    /\ db' = db
    /\ seq' = seq
    /\ last' = [req EXCEPT !.errors = errs]

Commit(req, d, s, resp) ==
    /\ db' = d
    /\ seq' = s
    /\ last' = [req EXCEPT !.response = resp]

Create(t, actor, raw) ==
    /\ nops < MaxOps
    /\ seq[t] <= MaxRows
    /\ nops' = nops + 1
    /\ now' = now
    /\ LET schema == CreateSchemas[t]
           req == Request("create", t, seq[t], actor, raw)
       IN IF ~Validate(schema, raw)
          THEN Reject(req, {"validation_error"})
          ELSE LET m == Model(schema, Parse(schema, raw))
                   row == NewRow(t, m, seq[t], actor, now)
                   d == Relink([db EXCEPT ![t] = Put(@, seq[t], row)], seq[t], m)
                   errs == Violations(d) \cup LinkViolations(m)
               IN IF errs # {}
                  THEN Reject(req, errs)
                  ELSE Commit(req, d, [seq EXCEPT ![t] = @ + 1], Render(t, row))

Update(t, id, raw) ==
    /\ nops < MaxOps
    /\ id \in DOMAIN db[t]
    /\ nops' = nops + 1
    /\ now' = now
    /\ LET schema == UpdateSchemas[t]
           req == Request("update", t, id, 0, raw)
       IN IF ~Validate(schema, raw)
          THEN Reject(req, {"validation_error"})
          ELSE LET p == Parse(schema, raw)
                   row == Patch(db[t][id], p)
                   d == Relink([db EXCEPT ![t][id] = row], id, p)
                   errs == Violations(d) \cup LinkViolations(p)
               IN IF errs # {}
                  THEN Reject(req, errs)
                  ELSE Commit(req, d, seq, Render(t, row))

\* The association rows of a deleted post, category or tag go with it; every
\* other reference to the deleted row is left to the foreign key.
Delete(t, id) ==
    /\ nops < MaxOps
    /\ id \in DOMAIN db[t]
    /\ nops' = nops + 1
    /\ now' = now
    /\ LET req == Request("delete", t, id, 0, NoResponse)
           d == [db EXCEPT
                   ![t] = Remove(@, id),
                   !.post_categories =
                       {e \in @ : ~(t = "posts" /\ e.post_id = id)
                                  /\ ~(t = "categories" /\ e.category_id = id)},
                   !.post_tags =
                       {e \in @ : ~(t = "posts" /\ e.post_id = id)
                                  /\ ~(t = "tags" /\ e.tag_id = id)}]
           errs == Violations(d)
       IN IF errs # {}
          THEN Reject(req, errs)
          ELSE Commit(req, d, seq, NoResponse)

Login(raw) ==
    /\ nops < MaxOps
    /\ nops' = nops + 1
    /\ now' = now
    /\ LET req == Request("login", "users", 0, 0, raw)
           hits == {i \in DOMAIN db.users :
                       /\ db.users[i].username = raw.username
                       /\ db.users[i].password_hash = Some(Hash(The(raw.password)))
                       /\ db.users[i].is_active = Some(TRUE)}
       IN IF ~Validate(UserLogin, raw)
          THEN Reject(req, {"validation_error"})
          ELSE IF hits = {}
          THEN Reject(req, {"auth_failed"})
          ELSE LET i == CHOOSE i \in hits : TRUE
                   row == [db.users[i] EXCEPT !.last_login = Some(now)]
               IN Commit([req EXCEPT !.id = i, !.before = db.users[i]],
                         [db EXCEPT !.users[i] = row], seq, Render("users", row))

Tick ==
    /\ now < MaxClock
    /\ now' = now + 1
    /\ UNCHANGED <<db, seq, last, nops>>

(* ------------------------------- inputs -------------------------------- *)

U1 == <<"a", "n", "n">>
U2 == <<"b", "o", "b">>
E1 == <<"a", "@", "x", ".", "y">>
E2 == <<"b", "@", "x", ".", "y">>
BadEmail == <<"a", "x", ".", "y">>
P1 == <<"s", "e", "c", "r", "e", "t", "0", "1">>
ShortPassword == <<"p", "w">>
T1 == <<"t", "1">>
T2 == <<"t", "2">>
S1 == <<"s", "1">>
S2 == <<"s", "2">>
Dict1 == {<<"k", "v">>}

Actors == {1, 2}

Without(raw, f) == [g \in DOMAIN raw \ {f} |-> raw[g]]
With(raw, f, v) == [g \in DOMAIN raw \cup {f} |-> IF g = f THEN v ELSE raw[g]]

User1 ==
    [username |-> Some(U1), email |-> Some(E1), password |-> Some(P1),
     first_name |-> Some(T1), last_name |-> Some(T1)]
User2 ==
    [username |-> Some(U2), email |-> Some(E2), password |-> Some(P1),
     first_name |-> Some(T2), last_name |-> Some(T2), role |-> Some("admin")]
Category1 == [name |-> Some(T1), slug |-> Some(S1)]
Category2 ==
    [name |-> Some(T2), slug |-> Some(S2), description |-> Some(T1),
     parent_id |-> Some(1)]
Tag1 == [name |-> Some(T1), slug |-> Some(S1)]
Tag2 ==
    [name |-> Some(T2), slug |-> Some(S2), description |-> Some(T1),
     color |-> Some(<<"#", "f", "f", "f">>)]
Post1 == [title |-> Some(T1), slug |-> Some(S1)]
Post2 ==
    [title |-> Some(T2), slug |-> Some(S2), content |-> Some(T1),
     excerpt |-> Some(T1), status |-> Some("published"),
     featured_image |-> Some(T1), meta_data |-> Some(Dict1),
     is_featured |-> Some(TRUE), allow_comments |-> Some(FALSE),
     category_ids |-> Some(<<1>>), tag_ids |-> Some(<<1>>)]
Page1 == [title |-> Some(T1), slug |-> Some(S1)]
Page2 ==
    [title |-> Some(T2), slug |-> Some(S2), content |-> Some(T1),
     status |-> Some("published"), meta_data |-> Some(Dict1),
     template |-> Some(T1), parent_id |-> Some(1), sort_order |-> Some(3),
     is_in_menu |-> Some(TRUE)]
Comment1 ==
    [post_id |-> Some(1), author_name |-> Some(T1), author_email |-> Some(E1),
     content |-> Some(T1)]
Comment2 ==
    [post_id |-> Some(1), author_name |-> Some(T2), author_email |-> Some(E2),
     author_website |-> Some(T1), content |-> Some(T2), parent_id |-> Some(1)]
Media1 ==
    [filename |-> Some(T1), original_filename |-> Some(T1),
     file_path |-> Some(T1), file_url |-> Some(T1), mime_type |-> Some(T1),
     file_size |-> Some(7)]
Media2 ==
    [filename |-> Some(T2), original_filename |-> Some(T2),
     file_path |-> Some(T2), file_url |-> Some(T2), mime_type |-> Some(T2),
     file_size |-> Some(9), alt_text |-> Some(T1), caption |-> Some(T1),
     meta_data |-> Some(Dict1)]

\* Payloads every schema accepts.
ValidInputs(t) ==
    CASE t = "users" -> {User1, User2}
      [] t = "categories" -> {Category1, Category2}
      [] t = "tags" -> {Tag1, Tag2}
      [] t = "posts" -> {Post1, Post2}
      [] t = "pages" -> {Page1, Page2}
      [] t = "comments" -> {Comment1, Comment2}
      [] t = "media" -> {Media1, Media2}

\* Payloads that break a declared constraint, or try to.
OddInputs(t) ==
    CASE t = "users" ->
            {With(User2, "email", Some(E1)),
             With(User2, "email", Some(BadEmail)),
             With(User2, "role", Some("owner")),
             With(User2, "username", Some(Rep(51))),
             With(User2, "username", NULL),
             With(User2, "password", Some(ShortPassword)),
             With(User2, "username", Some(P1)),
             Without(User2, "email")}
      [] t = "categories" ->
            {With(Category2, "slug", Some(S1)),
             With(Category2, "parent_id", Some(2)),
             With(Category2, "name", Some(Rep(101)))}
      [] t = "tags" ->
            {With(Tag2, "name", Some(T1)),
             With(Tag2, "color", Some(Rep(8)))}
      [] t = "posts" ->
            {With(Post1, "status", Some("deleted")),
             With(Post1, "category_ids", Some(<<1>>)),
             With(Post1, "category_ids", Some(<<1, 2>>)),
             With(Post1, "tag_ids", Some(<<1, 1>>)),
             With(Post2, "featured_image", NULL),
             Without(Post2, "title")}
      [] t = "pages" ->
            {With(Page2, "parent_id", Some(2)),
             With(Page2, "status", Some("deleted")),
             With(Page2, "slug", Some(S1))}
      [] t = "comments" ->
            {With(Comment1, "author_email", Some(BadEmail)),
             With(Comment1, "is_approved", Some(TRUE)),
             With(Comment1, "post_id", Some(2)),
             With(Comment2, "parent_id", Some(2)),
             With(Comment1, "content", Some(Rep(2001)))}
      [] t = "media" ->
            {Without(Media1, "file_size"),
             With(Media1, "uploaded_by", Some(2))}

CreateInputs(t) == ValidInputs(t) \cup OddInputs(t)

\* The values tried for one field of an Update payload.
FieldSamples(t, f) ==
    LET type == UpdateSchemas[t][f].type IN
    CASE f = "username" -> {Some(U1), Some(U2), Some(Rep(51)), NULL}
      [] f = "email" -> {Some(E1), Some(E2), Some(BadEmail)}
      [] f \in {"name", "title"} -> {Some(T1), Some(T2)}
      [] f = "slug" -> {Some(S1), Some(S2), NULL}
      [] f = "parent_id" -> {Some(1), Some(2), NULL}
      [] f = "featured_image" -> {Some(T2), NULL}
      [] f = "is_approved" -> {Some(TRUE), Some(FALSE), NULL}
      [] type = "UserRole" -> {Some("admin"), Some("editor"), Some("owner"), NULL}
      [] type = "ContentStatus" -> {Some("published"), Some("archived"), Some("deleted")}
      [] type = "bool" -> {Some(TRUE), Some(FALSE)}
      [] type = "int" -> {Some(5)}
      [] type = "json" -> {Some(Dict1)}
      [] type = "ints" -> {Some(<<>>), Some(<<1>>), Some(<<2>>), NULL}
      [] OTHER -> {Some(T2)}

\* Payloads that set exactly one declared field.
OneFieldUpdates(t) ==
    {[g \in {f} |-> v] : <<f, v>> \in
        UNION {{f} \X FieldSamples(t, f) : f \in DOMAIN UpdateSchemas[t]}}

\* Payloads that carry a field the Update schema does not declare, and one
\* that sets two.
OddUpdates(t) ==
    CASE t = "users" -> {[password_hash |-> Some(P1)], [id |-> Some(2)]}
      [] t = "posts" -> {[author_id |-> Some(2)], [view_count |-> Some(9)],
                         [title |-> Some(T2), slug |-> Some(S2)]}
      [] t = "pages" -> {[author_id |-> Some(2)]}
      [] t = "comments" ->
            {[post_id |-> Some(2)], [parent_id |-> Some(1)],
             [author_name |-> Some(T2)], [author_email |-> Some(E2)],
             [content |-> Some(T2), is_approved |-> Some(TRUE)],
             [content |-> Some(Rep(2001))]}
      [] t = "media" -> {[uploaded_by |-> Some(2)], [filename |-> Some(T2)]}
      [] OTHER -> {[id |-> Some(2)], [created_at |-> Some(0)]}

UpdateInputs(t) == OneFieldUpdates(t) \cup OddUpdates(t)

LoginInputs ==
    {[username |-> Some(U1), password |-> Some(P1)],
     [username |-> Some(U1), password |-> Some(ShortPassword)],
     [username |-> Some(U2), password |-> Some(P1)],
     [username |-> Some(U1)]}

(* ---------------------------- specifications --------------------------- *)

EmptyRows == [i \in {} |-> NULL]

EmptyDb ==
    [users |-> EmptyRows, categories |-> EmptyRows, tags |-> EmptyRows,
     posts |-> EmptyRows, pages |-> EmptyRows, comments |-> EmptyRows,
     media |-> EmptyRows, post_categories |-> {}, post_tags |-> {}]

\* The row a valid Create payload leaves in an empty table at time 0.
FirstRow(t, raw, actor) ==
    Put(EmptyRows, 1,
        NewRow(t, Model(CreateSchemas[t], Parse(CreateSchemas[t], raw)), 1, actor, 0))

\* The database after one valid create on every table: user 1 wrote post 1
\* (in category 1, with tag 1) and page 1 and uploaded media 1, and comment
\* 1 is on post 1.
SeededDb ==
    Relink([users |-> FirstRow("users", User1, 0),
            categories |-> FirstRow("categories", Category1, 0),
            tags |-> FirstRow("tags", Tag1, 0),
            posts |-> FirstRow("posts", Post2, 1),
            pages |-> FirstRow("pages", Page1, 1),
            comments |-> FirstRow("comments", Comment1, 0),
            media |-> FirstRow("media", Media1, 1),
            post_categories |-> {}, post_tags |-> {}],
           1, Post2)

Init ==
    /\ db \in {EmptyDb, SeededDb}
    /\ Violations(db) = {}
    /\ seq = [t \in DOMAIN Tables |-> Cardinality(DOMAIN db[t]) + 1]
    /\ now = 0
    /\ last = [op |-> "init", table |-> "", id |-> 0, actor |-> 0,
               payload |-> NoResponse, before |-> NoResponse, errors |-> {},
               response |-> NoResponse]
    /\ nops = 0

ActorsOf(t) == IF t \in {"posts", "pages", "media"} THEN Actors ELSE {0}

Creates(T) ==
    \E t \in T : \E actor \in ActorsOf(t), raw \in CreateInputs(t) :
        Create(t, actor, raw)

Updates(T) ==
    \E t \in T : \E id \in 1..MaxRows, raw \in UpdateInputs(t) : Update(t, id, raw)

Deletes(T) == \E t \in T, id \in 1..MaxRows : Delete(t, id)

Logins == \E raw \in LoginInputs : Login(raw)

Next ==
    \/ Creates(DOMAIN Tables)
    \/ Updates(DOMAIN Tables)
    \/ Deletes(DOMAIN Tables)
    \/ Logins
    \/ Tick

Spec == Init /\ [][Next]_vars

\* Updates alone, on every table.
NextPatch == Updates(DOMAIN Tables)

SpecPatch == Init /\ [][NextPatch]_vars

\* Accounts: registration, profile updates and logins.
NextUsers == Creates({"users"}) \/ Updates({"users"}) \/ Logins \/ Tick

SpecUsers == Init /\ [][NextUsers]_vars

\* The tables with unique columns and enumerated columns.
ContentTables == {"users", "categories", "tags", "posts", "pages"}

NextContent == Creates(ContentTables) \/ Updates(ContentTables)

SpecContent == Init /\ [][NextContent]_vars

\* Posts with their categories and tags, and the deletion of either end.
NextLinks ==
    \/ Creates({"posts"})
    \/ Updates({"posts"})
    \/ Deletes({"posts", "categories", "tags", "comments"})

SpecLinks == Init /\ [][NextLinks]_vars

\* Creation alone, on every table.
NextCreate == Creates(DOMAIN Tables) \/ Tick

SpecCreate == Init /\ [][NextCreate]_vars

\* Comments: submission and moderation.
NextComments == Creates({"comments"}) \/ Updates({"comments"})

SpecComments == Init /\ [][NextComments]_vars

(* ------------------------------- claims -------------------------------- *)

\* The columns no Update schema may reach: identity, ownership, creation
\* time and the credential.
ServerOwned ==
    {"id", "created_at", "author_id", "uploaded_by", "post_id", "password_hash"}

\* C1. An update changes no row but its target, and of the target no column
\* the payload does not set and no server-owned column, whatever the payload
\* carries; it adds and removes no row, leaves the association rows alone
\* unless it sets the id list, and the same update served a second time
\* changes nothing further.
C1_PartialUpdateFrame ==
    [][last'.op = "update" =>
        LET t == last'.table
            id == last'.id
            p == last'.payload
        IN /\ \A u \in DOMAIN Tables :
                /\ DOMAIN db'[u] = DOMAIN db[u]
                /\ \A i \in DOMAIN db[u] : (u # t \/ i # id) => db'[u][i] = db[u][i]
           /\ \A c \in DOMAIN Tables[t] :
                (c \notin DOMAIN p \/ c \in ServerOwned) =>
                    db'[t][id][c] = db[t][id][c]
           /\ "category_ids" \notin DOMAIN p => db'.post_categories = db.post_categories
           /\ "tag_ids" \notin DOMAIN p => db'.post_tags = db.post_tags
           /\ (last.op = "update" /\ last.table = t /\ last.id = id /\ last.payload = p)
                => db' = db
    ]_vars

\* An accepted one-field update of a comment changed that field.
C1_Witness ==
    /\ last.op = "update"
    /\ last.table = "comments"
    /\ last.errors = {}
    /\ last.payload = [is_approved |-> Some(TRUE)]
    /\ last.before.is_approved = Some(FALSE)
    /\ db.comments[last.id].is_approved = Some(TRUE)
    /\ db.comments[last.id].content = last.before.content

NullableUpdateFields ==
    {<<"posts", "featured_image">>, <<"pages", "parent_id">>,
     <<"categories", "parent_id">>}

\* C2. For Post.featured_image, Page.parent_id and Category.parent_id: an
\* update that omits the field leaves the stored value as it was, an accepted
\* update that carries it as null leaves the stored value null, and an
\* update carrying nothing but that null is accepted.
C2_AbsentVersusNull ==
    [][\A tf \in NullableUpdateFields :
        (last'.op = "update" /\ last'.table = tf[1]) =>
            LET t == tf[1]
                f == tf[2]
                id == last'.id
                p == last'.payload
            IN /\ f \notin DOMAIN p => db'[t][id][f] = db[t][id][f]
               /\ (f \in DOMAIN p /\ p[f] = NULL /\ last'.errors = {})
                    => db'[t][id][f] = NULL
               /\ (DOMAIN p = {f} /\ p[f] = NULL) => last'.errors = {}
    ]_vars

\* A page whose parent_id was set has had it cleared by an explicit null.
C2_Witness ==
    /\ last.op = "update"
    /\ last.table = "pages"
    /\ last.payload = [parent_id |-> NULL]
    /\ last.errors = {}
    /\ last.before.parent_id # NULL
    /\ db.pages[last.id].parent_id = NULL

TreeTables == {"categories", "pages", "comments"}

RECURSIVE Ancestors(_, _, _, _)
Ancestors(d, t, i, n) ==
    IF n = 0 \/ d[t][i].parent_id = NULL \/ The(d[t][i].parent_id) \notin DOMAIN d[t]
    THEN {}
    ELSE {The(d[t][i].parent_id)}
         \cup Ancestors(d, t, The(d[t][i].parent_id), n - 1)

\* C9. In categories, pages and comments every parent_id that is set names
\* a row of the same table, and no row is among its own ancestors.
C9_ParentLinksFormForest ==
    \A t \in TreeTables : \A i \in DOMAIN db[t] :
        /\ db[t][i].parent_id # NULL => The(db[t][i].parent_id) \in DOMAIN db[t]
        /\ i \notin Ancestors(db, t, i, Cardinality(DOMAIN db[t]))

UniqueColumns ==
    {<<"users", "username">>, <<"users", "email">>, <<"posts", "slug">>,
     <<"pages", "slug">>, <<"categories", "name">>, <<"categories", "slug">>,
     <<"tags", "name">>, <<"tags", "slug">>}

NoDuplicates(d) ==
    \A tc \in UniqueColumns : \A i, j \in DOMAIN d[tc[1]] :
        i # j => d[tc[1]][i][tc[2]] # d[tc[1]][j][tc[2]]

\* The request carries, for a unique column, the value another row holds.
Clash(d, req) ==
    /\ req.op \in {"create", "update"}
    /\ \E tc \in UniqueColumns :
        /\ tc[1] = req.table
        /\ tc[2] \in DOMAIN req.payload
        /\ \E j \in DOMAIN d[tc[1]] :
            j # req.id /\ d[tc[1]][j][tc[2]] = req.payload[tc[2]]

\* C3. No two users share a username or an email, no two posts or pages a
\* slug, no two categories or tags a name or a slug; a create or update
\* carrying a value another row holds in such a column fails, with a
\* uniqueness violation unless its payload already failed validation, and
\* leaves the database as it was.
C3_Uniqueness ==
    [][/\ NoDuplicates(db)
       /\ NoDuplicates(db')
       /\ Clash(db, last') =>
            /\ db' = db
            /\ last'.errors # {}
            /\ last'.errors \subseteq {"uniqueness_violation", "referential_violation"}
               \/ last'.errors = {"validation_error"}
            /\ last'.errors \cap {"uniqueness_violation", "validation_error"} # {}
    ]_vars

\* An update of a second user to the first user's username was refused.
C3_Witness ==
    /\ last.op = "update"
    /\ last.table = "users"
    /\ "username" \in DOMAIN last.payload
    /\ last.errors = {"uniqueness_violation"}
    /\ Cardinality(DOMAIN db.users) = 2

\* C4. No stored text is longer than its column's max_length, and every
\* stored users.email and comments.author_email matches the declared
\* pattern.
C4_ValidationBeforePersistence ==
    \A t \in DOMAIN Tables : \A i \in DOMAIN db[t] : \A c \in DOMAIN Tables[t] :
        (Tables[t][c].type = "str" /\ db[t][i][c] # NULL) =>
            /\ Tables[t][c].max > 0 => Len(The(db[t][i][c])) <= Tables[t][c].max
            /\ Tables[t][c].regex => EmailRegex(The(db[t][i][c]))

NoDangling(d) ==
    /\ \A e \in d.post_categories :
        e.post_id \in DOMAIN d.posts /\ e.category_id \in DOMAIN d.categories
    /\ \A e \in d.post_tags :
        e.post_id \in DOMAIN d.posts /\ e.tag_id \in DOMAIN d.tags

\* The request links a post to a category or tag that is not there.
MissingEndpoint(d, req) ==
    /\ req.op \in {"create", "update"}
    /\ req.table = "posts"
    /\ \/ /\ "category_ids" \in DOMAIN req.payload
          /\ req.payload.category_ids # NULL
          /\ Range(The(req.payload.category_ids)) \ DOMAIN d.categories # {}
       \/ /\ "tag_ids" \in DOMAIN req.payload
          /\ req.payload.tag_ids # NULL
          /\ Range(The(req.payload.tag_ids)) \ DOMAIN d.tags # {}

\* C5. Every post_categories row names an existing post and category and
\* every post_tags row an existing post and tag; a create or update linking a
\* post to a missing category or tag fails and leaves the database as it
\* was; after a post, category or tag is deleted no link row names it.
C5_NoDanglingEdge ==
    [][/\ NoDangling(db)
       /\ NoDangling(db')
       /\ MissingEndpoint(db, last') => (db' = db /\ last'.errors # {})
       /\ (last'.op = "delete" /\ last'.errors = {}) =>
            /\ last'.id \notin DOMAIN db'[last'.table]
            /\ last'.table = "posts" =>
                 \A e \in db'.post_categories \cup db'.post_tags :
                     e.post_id # last'.id
            /\ last'.table = "categories" =>
                 \A e \in db'.post_categories : e.category_id # last'.id
            /\ last'.table = "tags" =>
                 \A e \in db'.post_tags : e.tag_id # last'.id
    ]_vars

\* Category 1, which post 1 was in, has been deleted, and its link with it.
C5_Witness ==
    /\ nops = 1
    /\ last.op = "delete"
    /\ last.table = "categories"
    /\ last.errors = {}
    /\ 1 \in DOMAIN db.posts
    /\ db.post_categories = {}
    /\ db.post_tags # {}

EnumsClosed(d) ==
    /\ \A i \in DOMAIN d.users : d.users[i].role \in {{"admin"}, {"editor"}}
    /\ \A t \in {"posts", "pages"} : \A i \in DOMAIN d[t] :
        d[t][i].status \in {{"draft"}, {"published"}, {"archived"}}

\* The request carries a role or a status outside the enumeration.
OutsideEnum(req) ==
    /\ req.op \in {"create", "update"}
    /\ \/ /\ req.table = "users"
          /\ "role" \in DOMAIN req.payload
          /\ req.payload.role \notin {NULL, {"admin"}, {"editor"}}
       \/ /\ req.table \in {"posts", "pages"}
          /\ "status" \in DOMAIN req.payload
          /\ req.payload.status \notin {NULL, {"draft"}, {"published"}, {"archived"}}

\* C6. Every stored role is admin or editor and every stored post or page
\* status is draft, published or archived; a create or update carrying
\* another value fails validation and leaves the database as it was.
C6_ClosedEnums ==
    [][/\ EnumsClosed(db)
       /\ EnumsClosed(db')
       /\ OutsideEnum(last') =>
            (db' = db /\ last'.errors = {"validation_error"})
    ]_vars

\* A user's role was refused a value outside the enumeration.
C6_Witness ==
    /\ last.op = "update"
    /\ last.table = "users"
    /\ last.payload = [role |-> Some("owner")]
    /\ last.errors = {"validation_error"}

\* C7, as claimed. The response to an accepted create carries every field
\* of the Create payload with the value supplied, and an id and a created_at.
C7_CreateResponseRoundTrip ==
    (last.op = "create" /\ last.errors = {}) =>
        /\ \A f \in DOMAIN last.payload \cap DOMAIN CreateSchemas[last.table] :
            f \in DOMAIN last.response /\ last.response[f] = last.payload[f]
        /\ last.response.id # NULL
        /\ last.response.created_at # NULL

\* The Create fields no Response schema declares.
NotEchoed == {"password", "category_ids", "tag_ids"}

\* C7, amended. The response to an accepted create carries every field of
\* the Create payload but password, category_ids and tag_ids with the value
\* supplied, and an id and a created_at; those three it does not carry,
\* and the id lists are held as the post's link rows.
C7_CreateResponseRoundTripAmended ==
    (last.op = "create" /\ last.errors = {}) =>
        /\ \A f \in DOMAIN last.payload \cap DOMAIN CreateSchemas[last.table] :
            IF f \in NotEchoed
            THEN f \notin DOMAIN last.response
            ELSE f \in DOMAIN last.response /\ last.response[f] = last.payload[f]
        /\ last.response.id = Some(last.id)
        /\ last.response.created_at # NULL
        /\ db[last.table][last.id].created_at # NULL
        /\ "category_ids" \in DOMAIN last.payload =>
            {e.category_id : e \in {x \in db.post_categories : x.post_id = last.id}}
                = Range(The(last.payload.category_ids))
        /\ "tag_ids" \in DOMAIN last.payload =>
            {e.tag_id : e \in {x \in db.post_tags : x.post_id = last.id}}
                = Range(The(last.payload.tag_ids))

\* A post was created in a category, and answered with its slug.
C7_Witness ==
    /\ last.op = "create"
    /\ last.table = "posts"
    /\ last.errors = {}
    /\ "category_ids" \in DOMAIN last.payload
    /\ last.payload.category_ids = Some(<<1>>)
    /\ last.response.slug = last.payload.slug
    /\ last.response.created_at # NULL

TextColumns(t) == {c \in DOMAIN Tables[t] : Tables[t][c].type = "str"}

\* The plaintext passwords a request can carry.
Plaintexts ==
    {raw.password : raw \in {r \in CreateInputs("users") \cup LoginInputs :
                                "password" \in DOMAIN r}}

C10_CommentApprovalGate ==
    [][/\ (last'.op = "create" /\ last'.table = "comments" /\ last'.errors = {}) =>
            db'.comments[last'.id].is_approved = Some(FALSE)
       /\ \A i \in DOMAIN db'.comments :
            (/\ db'.comments[i].is_approved = Some(TRUE)
             /\ (i \notin DOMAIN db.comments \/ db.comments[i].is_approved # Some(TRUE)))
            => /\ last'.op = "update"
               /\ last'.table = "comments"
               /\ last'.id = i
               /\ "is_approved" \in DOMAIN last'.payload
               /\ last'.payload.is_approved = Some(TRUE)
       /\ (last'.op = "update" /\ last'.table = "comments") =>
            \A c \in {"id", "post_id", "parent_id", "author_name", "author_email"} :
                db'.comments[last'.id][c] = db.comments[last'.id][c]
    ]_vars

\* A comment submitted with is_approved set was stored unapproved, then
\* approved by an update.
C10_Witness ==
    /\ last.op = "update"
    /\ last.table = "comments"
    /\ last.id = 2
    /\ last.errors = {}
    /\ last.before.is_approved = Some(FALSE)
    /\ db.comments[2].is_approved = Some(TRUE)
    /\ db.comments[2].post_id = Some(1)

====
